---- MODULE Spec2Model ----
(***************************************************************************)
(* The analyst case-study notebooks as a state machine.                    *)
(*                                                                         *)
(* Every notebook has a kernel of its own; the state is each kernel's      *)
(* namespace (the tables and scalars its cells define) plus the one thing  *)
(* kernels share, the file system.  An action is the execution of one code *)
(* cell.  A cell that raises leaves the namespace as it was.               *)
(*                                                                         *)
(* Arithmetic: the notebooks compute in Python floats, and so does the     *)
(* model: a float is an IEEE-754 double and every operation rounds to the  *)
(* nearest double.  A division by zero yields the marker DivZero (Python   *)
(* raises ZeroDivisionError there).                                        *)
(***************************************************************************)
EXTENDS Integers, Sequences, FiniteSets, TLC

(* ------------------------------------------------------------------ *)
(* Natural numbers of any size                                         *)
(* ------------------------------------------------------------------ *)
(* A double has a 53-bit significand, which does not fit the model     *)
(* checker's integers.  A natural number is held as its digits in base *)
(* 2^15, least significant first, no leading zero digit; 0 is <<>>.    *)

LimbBits == 15
LimbBase == 32768

Abs(x) == IF x < 0 THEN -x ELSE x

RECURSIVE Pow2(_)
Pow2(k) == IF k = 0 THEN 1 ELSE 2 * Pow2(k - 1)

RECURSIVE SmallBitLen(_)
SmallBitLen(x) == IF x = 0 THEN 0 ELSE 1 + SmallBitLen(x \div 2)

\* x + LimbBase * a
BPrepend(x, a) == IF x = 0 /\ a = <<>> THEN <<>> ELSE <<x>> \o a

RECURSIVE BFromInt(_)
BFromInt(k) == IF k = 0 THEN <<>> ELSE <<k % LimbBase>> \o BFromInt(k \div LimbBase)

RECURSIVE BToInt(_)
BToInt(a) == IF a = <<>> THEN 0 ELSE Head(a) + LimbBase * BToInt(Tail(a))

BitLen(a) ==
    IF a = <<>> THEN 0 ELSE LimbBits * (Len(a) - 1) + SmallBitLen(a[Len(a)])

RECURSIVE BTrim(_)
BTrim(a) ==
    IF a = <<>> THEN a
    ELSE IF a[Len(a)] = 0 THEN BTrim(SubSeq(a, 1, Len(a) - 1)) ELSE a

RECURSIVE BAddC(_, _, _)
BAddC(a, b, c) ==
    IF a = <<>> /\ b = <<>> THEN (IF c = 0 THEN <<>> ELSE <<c>>)
    ELSE LET x == (IF a = <<>> THEN 0 ELSE Head(a)) + (IF b = <<>> THEN 0 ELSE Head(b)) + c
         IN  <<x % LimbBase>> \o BAddC(IF a = <<>> THEN a ELSE Tail(a),
                                       IF b = <<>> THEN b ELSE Tail(b), x \div LimbBase)

BAdd(a, b) == BAddC(a, b, 0)

\* a - b - c for a >= b + c, digit by digit with a borrow
RECURSIVE BSubC(_, _, _)
BSubC(a, b, c) ==
    IF a = <<>> THEN <<>>
    ELSE LET x == Head(a) - (IF b = <<>> THEN 0 ELSE Head(b)) - c
         IN  <<IF x < 0 THEN x + LimbBase ELSE x>>
                 \o BSubC(Tail(a), IF b = <<>> THEN b ELSE Tail(b), IF x < 0 THEN 1 ELSE 0)

BSub(a, b) == BTrim(BSubC(a, b, 0))

RECURSIVE BCmpFrom(_, _, _)
BCmpFrom(a, b, i) ==
    IF i = 0 THEN 0
    ELSE IF a[i] < b[i] THEN -1
    ELSE IF a[i] > b[i] THEN 1
    ELSE BCmpFrom(a, b, i - 1)

\* -1, 0 or 1 as a is below, equal to or above b
BCmp(a, b) ==
    IF Len(a) < Len(b) THEN -1
    ELSE IF Len(a) > Len(b) THEN 1
    ELSE BCmpFrom(a, b, Len(a))

RECURSIVE BMulSmallC(_, _, _)
BMulSmallC(a, k, c) ==
    IF a = <<>> THEN (IF c = 0 THEN <<>> ELSE <<c>>)
    ELSE LET x == Head(a) * k + c
         IN  <<x % LimbBase>> \o BMulSmallC(Tail(a), k, x \div LimbBase)

\* a * k for 0 <= k < LimbBase
BMulSmall(a, k) == IF k = 0 THEN <<>> ELSE BMulSmallC(a, k, 0)

RECURSIVE BMul(_, _)
BMul(a, b) ==
    IF a = <<>> \/ b = <<>> THEN <<>>
    ELSE BAdd(BMulSmall(a, Head(b)), BPrepend(0, BMul(a, Tail(b))))

\* <<a \div k, a % k>> for 0 < k <= LimbBase
RECURSIVE BDivSmall(_, _)
BDivSmall(a, k) ==
    IF a = <<>> THEN <<<<>>, 0>>
    ELSE LET hi == BDivSmall(Tail(a), k)
             x  == hi[2] * LimbBase + Head(a)
         IN  <<BPrepend(x \div k, hi[1]), x % k>>

RECURSIVE BShiftLimbs(_, _)
BShiftLimbs(a, q) == IF q = 0 \/ a = <<>> THEN a ELSE <<0>> \o BShiftLimbs(a, q - 1)

\* a * 2^n
BShl(a, n) == BShiftLimbs(BMulSmall(a, Pow2(n % LimbBits)), n \div LimbBits)

\* <<a \div 2^n, whether a bit was shifted out>>
BShr(a, n) ==
    LET q == n \div LimbBits
        r == n % LimbBits
    IN  IF q >= Len(a) THEN <<<<>>, a # <<>>>>
        ELSE LET d == BDivSmall(SubSeq(a, q + 1, Len(a)), Pow2(r))
             IN  <<d[1], d[2] # 0 \/ \E i \in 1..q : a[i] # 0>>

\* the digit r \div d of a long division (r < d * LimbBase, d's top digit >= 2^14):
\* estimated from the top digits, then lowered until it fits
RECURSIVE FixDigit(_, _, _)
FixDigit(r, d, q) == IF BCmp(BMulSmall(d, q), r) > 0 THEN FixDigit(r, d, q - 1) ELSE q

QDigit(r, d) ==
    LET n == Len(d)
    IN  IF Len(r) < n THEN 0
        ELSE LET top == (IF Len(r) > n THEN r[n + 1] * LimbBase ELSE 0) + r[n]
                 est == top \div d[n]
             IN  FixDigit(r, d, IF est >= LimbBase THEN LimbBase - 1 ELSE est)

RECURSIVE BDivModN(_, _)
BDivModN(n, d) ==
    IF n = <<>> THEN <<<<>>, <<>>>>
    ELSE LET hi == BDivModN(Tail(n), d)
             r1 == BPrepend(Head(n), hi[2])
             q  == QDigit(r1, d)
         IN  <<BPrepend(q, hi[1]), BSub(r1, BMulSmall(d, q))>>

\* <<n \div d, whether n % d # 0>> for d # 0
BDivMod(n, d) ==
    LET s  == LimbBits - SmallBitLen(d[Len(d)])
        qr == BDivModN(BShl(n, s), BShl(d, s))
    IN  <<qr[1], qr[2] # <<>>>>

(* ------------------------------------------------------------------ *)
(* Python floats                                                       *)
(* ------------------------------------------------------------------ *)
(* A float is an IEEE-754 double: [s, m, e] stands for s * m * 2^e     *)
(* with s the sign (-1, 0, 1) and m a natural number of exactly 53     *)
(* bits; 0.0 is [0, <<>>, 0].  Every operation gives the double        *)
(* nearest to the exact result, a tie going to the even significand.   *)
(* The notebooks stay far from the overflow and subnormal ranges,      *)
(* which are left out.  An int is the float of the same value (the     *)
(* notebooks' ints are below 2^53).                                    *)

MantissaBits == 53

Zero == [s |-> 0, m |-> <<>>, e |-> 0]

\* what takes the place of a result when Python raises ZeroDivisionError
DivZero == [s |-> 0, m |-> <<>>, e |-> -1]

IsNum(q) == q # DivZero

\* the double nearest to n * 2^e (n a natural number; sticky: the exact value lies
\* strictly between n * 2^e and (n + 1) * 2^e)
RoundToDouble(s, n, e, sticky) ==
    IF n = <<>> THEN Zero
    ELSE LET len == BitLen(n)
         IN  IF len <= MantissaBits
             THEN [s |-> s, m |-> BShl(n, MantissaBits - len), e |-> e - (MantissaBits - len)]
             ELSE LET k    == len - MantissaBits
                      sh   == BShr(n, k - 1)
                      half == Head(sh[1]) % 2 = 1
                      m0   == BDivSmall(sh[1], 2)[1]
                      up   == half /\ (sh[2] \/ sticky \/ Head(m0) % 2 = 1)
                      m1   == IF up THEN BAdd(m0, <<1>>) ELSE m0
                  IN  IF BitLen(m1) > MantissaBits
                      THEN [s |-> s, m |-> BDivSmall(m1, 2)[1], e |-> e + k + 1]
                      ELSE [s |-> s, m |-> m1, e |-> e + k]

\* float(k)
RInt(k) ==
    IF k = 0 THEN Zero
    ELSE RoundToDouble(IF k < 0 THEN -1 ELSE 1, BFromInt(Abs(k)), 0, FALSE)

RNeg(a) == IF IsNum(a) THEN [a EXCEPT !.s = -a.s] ELSE DivZero

\* -1, 0 or 1 as a is below, equal to or above b
RCmp(a, b) ==
    IF a.s # b.s THEN (IF a.s < b.s THEN -1 ELSE 1)
    ELSE IF a.s = 0 THEN 0
    ELSE IF a.e # b.e THEN (IF a.e < b.e THEN -a.s ELSE a.s)
    ELSE a.s * BCmp(a.m, b.m)

RLt(a, b) == RCmp(a, b) < 0

RLe(a, b) == RCmp(a, b) <= 0

\* a + b
RAdd(a, b) ==
    IF ~IsNum(a) \/ ~IsNum(b) THEN DivZero
    ELSE IF a.s = 0 THEN b
    ELSE IF b.s = 0 THEN a
    ELSE LET hi == IF a.e >= b.e THEN a ELSE b
             lo == IF a.e >= b.e THEN b ELSE a
             d  == hi.e - lo.e
         IN  IF d > 64 THEN hi
             ELSE LET x == BShl(hi.m, d)
                      c == BCmp(x, lo.m)
                  IN  IF hi.s = lo.s THEN RoundToDouble(hi.s, BAdd(x, lo.m), lo.e, FALSE)
                      ELSE IF c = 0 THEN Zero
                      ELSE IF c > 0 THEN RoundToDouble(hi.s, BSub(x, lo.m), lo.e, FALSE)
                      ELSE RoundToDouble(lo.s, BSub(lo.m, x), lo.e, FALSE)

\* a - b
RSub(a, b) == RAdd(a, RNeg(b))

\* a * b
RMul(a, b) ==
    IF ~IsNum(a) \/ ~IsNum(b) THEN DivZero
    ELSE IF a.s = 0 \/ b.s = 0 THEN Zero
    ELSE RoundToDouble(a.s * b.s, BMul(a.m, b.m), a.e + b.e, FALSE)

\* a / b
RDiv(a, b) ==
    IF ~IsNum(a) \/ ~IsNum(b) \/ b.s = 0 THEN DivZero
    ELSE IF a.s = 0 THEN Zero
    ELSE LET qr == BDivMod(BShl(a.m, 60), b.m)
         IN  RoundToDouble(a.s * b.s, qr[1], a.e - b.e - 60, qr[2])

\* the literal n/d written in decimal (0.001 is R(1, 1000)): the double nearest to it
R(n, d) == RDiv(RInt(n), RInt(d))

(* ------------------------------------------------------------------ *)
(* State                                                               *)
(* ------------------------------------------------------------------ *)

VARIABLES
    imported,       \* 07_unit_economics: the import cell has run
    assumptions,    \* 07_unit_economics: <<>> or <<the assumptions dict>>
    cohorts,        \* 07_unit_economics: <<>> or the cohorts table (a sequence of rows)
    breakeven,      \* 07_unit_economics: <<>> or <<the break-even cell's names>>
    prices,         \* Anthropic unit economics: <<>> or <<the first cell's names>>
    annual_revenue, \* Anthropic unit economics: <<>> or <<annual_revenue>>
    tier_df,        \* 03_product_tiering: <<>> or the tier table
    data,           \* customer profitability: <<>> or the data dict, one record a customer
    profit_df,      \* customer profitability: <<>> or the customer table df
    rng,            \* customer profitability: the state of numpy's global generator
    files,          \* the file system: the set of files the notebooks have written
    dir_exists,     \* the file system: ../report/graphics exists
    pc,             \* Run All: per notebook, the next code cell to execute
    halted,         \* Run All: per notebook, "" or the error that stopped the run
    arg,            \* a function applied on its own: its arguments
    res             \* a function applied on its own: <<>> or <<its result>>

vars == <<imported, assumptions, cohorts, breakeven, prices, annual_revenue, tier_df,
          data, profit_df, rng, files, dir_exists, pc, halted, arg, res>>

kernel_vars == <<imported, assumptions, cohorts, breakeven, prices, annual_revenue, tier_df,
                 data, profit_df, rng, files>>

Undefined == <<>>

Defined(x) == x # <<>>

(* ------------------------------------------------------------------ *)
(* 07_unit_economics.ipynb                                            *)
(* ------------------------------------------------------------------ *)

\* assumptions = {...}; amounts in USD
Assumptions ==
    [inference_cost_per_1k_tokens |-> R(1, 1000),
     fine_tune_cost_per_1k_tokens |-> R(3, 2),
     revenue_per_1k_tokens        |-> R(2, 1000),
     support_cost_per_customer    |-> RInt(200),
     customer_acquisition_cost    |-> RInt(400)]

\* cohorts = pd.DataFrame([...])
Cohorts ==
    << [name |-> "Indie", monthly_tokens |-> 500000, fine_tune_tokens |-> 0,
        payment |-> 0, churn |-> R(10, 100), count |-> 1000],
       [name |-> "SMB", monthly_tokens |-> 10000000, fine_tune_tokens |-> 50000,
        payment |-> 1500, churn |-> R(5, 100), count |-> 200],
       [name |-> "Enterprise", monthly_tokens |-> 100000000, fine_tune_tokens |-> 500000,
        payment |-> 25000, churn |-> R(2, 100), count |-> 20] >>

\* token_cost + fine_tune_cost + support_cost
TotalCost_NoSupport(a, row) ==
    RAdd(RMul(RDiv(RInt(row.monthly_tokens), RInt(1000)), a.inference_cost_per_1k_tokens),
         RMul(RDiv(RInt(row.fine_tune_tokens), RInt(1000)), a.fine_tune_cost_per_1k_tokens))

\* token_cost = (row['monthly_tokens'] / 1000) * assumptions['inference_cost_per_1k_tokens']
token_cost(a, row) ==
    RMul(RDiv(RInt(row.monthly_tokens), RInt(1000)), a.inference_cost_per_1k_tokens)

\* fine_tune_cost = (row['fine_tune_tokens'] / 1000) * assumptions['fine_tune_cost_per_1k_tokens']
fine_tune_cost(a, row) ==
    RMul(RDiv(RInt(row.fine_tune_tokens), RInt(1000)), a.fine_tune_cost_per_1k_tokens)

\* support_cost = assumptions['support_cost_per_customer']
support_cost(a) == a.support_cost_per_customer

TotalCost(a, row) ==
    RAdd(RAdd(token_cost(a, row), fine_tune_cost(a, row)), support_cost(a))

\* margin = row['payment'] - total_cost
Margin_Swapped(payment, total_cost) == RSub(total_cost, RInt(payment))

Margin(payment, total_cost) == RSub(RInt(payment), total_cost)

\* gross_margin_pct = (margin / row['payment']) * 100 if row['payment'] > 0 else 0
GrossMarginPct_Unguarded(payment, margin) ==
    RMul(RDiv(margin, RInt(payment)), RInt(100))

GrossMarginPct(payment, margin) ==
    IF payment > 0 THEN RMul(RDiv(margin, RInt(payment)), RInt(100)) ELSE RInt(0)

\* the three columns with the cost reported in the margin column
calculate_unit_economics_MarginIsCost(a, row) ==
    [total_cost       |-> TotalCost(a, row),
     margin           |-> TotalCost(a, row),
     gross_margin_pct |-> GrossMarginPct(row.payment, TotalCost(a, row))]

\* pd.Series({'total_cost': total_cost, 'margin': margin,
\*            'gross_margin_pct': gross_margin_pct})
calculate_unit_economics(a, row) ==
    [total_cost       |-> TotalCost(a, row),
     margin           |-> Margin(row.payment, TotalCost(a, row)),
     gross_margin_pct |-> GrossMarginPct(row.payment,
                                         Margin(row.payment, TotalCost(a, row)))]

IsJoined(table) == \E i \in DOMAIN table : "margin" \in DOMAIN table[i]

\* one row of the join: the cohort's columns and the three computed ones
JoinRow(row, out) ==
    [name |-> row.name, monthly_tokens |-> row.monthly_tokens,
     fine_tune_tokens |-> row.fine_tune_tokens,
     payment |-> row.payment, churn |-> row.churn,
     count |-> row.count, total_cost |-> out.total_cost,
     margin |-> out.margin, gross_margin_pct |-> out.gross_margin_pct]

\* cohorts.join(cohorts.apply(calculate_unit_economics, axis=1))
JoinUnitEconomics(a, table) ==
    [i \in DOMAIN table |-> JoinRow(table[i], calculate_unit_economics(a, table[i]))]

\* cohorts['margin'].mean(): the sum of the column over the number of rows
RECURSIVE SumMargin(_, _)
SumMargin(table, n) ==
    IF n = 0 THEN RInt(0) ELSE RAdd(SumMargin(table, n - 1), table[n].margin)

\* the mean with every row weighted by its cohort's count
MeanMargin_Weighted(table) ==
    RDiv(RAdd(RAdd(RMul(table[1].margin, RInt(table[1].count)),
                   RMul(table[2].margin, RInt(table[2].count))),
              RMul(table[3].margin, RInt(table[3].count))),
         RInt(table[1].count + table[2].count + table[3].count))

MeanMargin(table) == RDiv(SumMargin(table, Len(table)), RInt(Len(table)))

(* ------------------------------------------------------------------ *)
(* Formatting and rounding                                             *)
(* ------------------------------------------------------------------ *)

\* q * scale rounded to the nearest integer, a tie to the even one: the digits of
\* f"{q:.2f}" for scale 100, of f"{q:.1f}" for scale 10 (scale < LimbBase)
FormatScaled(q, scale) ==
    IF q.s = 0 THEN 0
    ELSE LET n == BMulSmall(q.m, scale)
             k == -q.e
         IN  IF k <= 0 THEN q.s * BToInt(BShl(n, -k))
             ELSE IF k > BitLen(n) + 1 THEN 0
             ELSE LET sh   == BShr(n, k - 1)
                      half == sh[1] # <<>> /\ Head(sh[1]) % 2 = 1
                      fl   == BDivSmall(sh[1], 2)[1]
                      up   == half /\ (sh[2] \/ (fl # <<>> /\ Head(fl) % 2 = 1))
                  IN  q.s * BToInt(IF up THEN BAdd(fl, <<1>>) ELSE fl)

\* f"{q:.2f}" as a number of hundredths, f"{q:.1f}" as a number of tenths
Format2f(q) == FormatScaled(q, 100)

Format1f(q) == FormatScaled(q, 10)

\* breakeven_customers = assumptions['customer_acquisition_cost'] / avg_monthly_margin
BreakevenCustomers(a, table) == RDiv(a.customer_acquisition_cost, MeanMargin(table))

\* the break-even cell of 07_unit_economics: the names it defines, and the number
\* of tenths its print shows (f"{breakeven_customers:.1f}")
BreakEven(a, table) ==
    [avg_monthly_margin  |-> MeanMargin(table),
     breakeven_customers |-> BreakevenCustomers(a, table),
     stdout              |-> Format1f(BreakevenCustomers(a, table))]

(* ------------------------------------------------------------------ *)
(* Anthropic case study: 04 - Unit Economics and Revenue Modeling      *)
(* ------------------------------------------------------------------ *)

price_input_per_million == 30
price_output_per_million == 60
cost_input_per_million == 6
cost_output_per_million == 12
input_tokens == 2000000
output_tokens == 1000000

\* (input_tokens / 1_000_000) * per_input + (output_tokens / 1_000_000) * per_output
PerMillion(inp, out, per_input, per_output) ==
    RAdd(RMul(RDiv(RInt(inp), RInt(1000000)), RInt(per_input)),
         RMul(RDiv(RInt(out), RInt(1000000)), RInt(per_output)))

Revenue(inp, out) ==
    PerMillion(inp, out, price_input_per_million, price_output_per_million)

Cost(inp, out) ==
    PerMillion(inp, out, cost_input_per_million, cost_output_per_million)

\* gross_margin = (revenue - cost) / revenue * 100
GrossMargin_OverCost(revenue, cost) ==
    RMul(RDiv(RSub(revenue, cost), cost), RInt(100))

GrossMargin(revenue, cost) ==
    RMul(RDiv(RSub(revenue, cost), revenue), RInt(100))

\* the names the first code cell leaves in the kernel
TokenEconomics(inp, out) ==
    [input_tokens |-> inp, output_tokens |-> out,
     revenue      |-> Revenue(inp, out),
     cost         |-> Cost(inp, out),
     gross_margin |-> GrossMargin(Revenue(inp, out), Cost(inp, out))]

\* print(f"... ${revenue:.2f}"), print(f"... ${cost:.2f}"), print(f"... {gross_margin:.1f}%")
TokenEconomicsStdout(ns) ==
    <<Format2f(ns.revenue), Format2f(ns.cost), Format1f(ns.gross_margin)>>

\* monthly_revenue_per_customer = ((2/3)*price_input + (1/3)*price_output) * 100
MonthlyRevenuePerCustomer_EvenMix ==
    RMul(RAdd(RMul(R(1, 2), RInt(price_input_per_million)),
              RMul(R(1, 2), RInt(price_output_per_million))), RInt(100))

MonthlyRevenuePerCustomer ==
    RMul(RAdd(RMul(RDiv(RInt(2), RInt(3)), RInt(price_input_per_million)),
              RMul(RDiv(RInt(1), RInt(3)), RInt(price_output_per_million))), RInt(100))

\* annual_revenue = monthly_revenue_per_customer * 12 * 1000
AnnualRevenue1000 == RMul(RMul(MonthlyRevenuePerCustomer, RInt(12)), RInt(1000))

\* print(f"... ${annual_revenue/1e6:.1f}M") as a number of tenths
AnnualRevenueStdout(a) == Format1f(RDiv(a, RInt(1000000)))

(* ------------------------------------------------------------------ *)
(* Anthropic case study: GTM Strategy & Pricing Analysis               *)
(* ------------------------------------------------------------------ *)

\* input_cost = input_tokens_m * 30
InputCost(input_tokens_m) == RMul(input_tokens_m, RInt(30))

\* output_cost = output_tokens_m * 60
OutputCost(output_tokens_m) == RMul(output_tokens_m, RInt(60))

\* total = input_cost + output_cost
Total(input_tokens_m, output_tokens_m) ==
    RAdd(InputCost(input_tokens_m), OutputCost(output_tokens_m))

\* the amounts, the three lines printed (in hundredths) and the value returned
EstimateNames(input_cost, output_cost, total) ==
    [input_cost |-> input_cost, output_cost |-> output_cost, total |-> total,
     stdout |-> <<Format2f(input_cost), Format2f(output_cost), Format2f(total)>>,
     returns |-> total]

\* def estimate_claude_cost(input_tokens_m, output_tokens_m)
estimate_claude_cost_InputOnly(input_tokens_m, output_tokens_m) ==
    EstimateNames(InputCost(input_tokens_m), OutputCost(output_tokens_m),
                  InputCost(input_tokens_m))

estimate_claude_cost(input_tokens_m, output_tokens_m) ==
    EstimateNames(InputCost(input_tokens_m), OutputCost(output_tokens_m),
                  Total(input_tokens_m, output_tokens_m))

(* ------------------------------------------------------------------ *)
(* 03_product_tiering.ipynb                                           *)
(* ------------------------------------------------------------------ *)

Tiers == <<"Starter", "Growth", "Pro", "Enterprise">>

customers ==
    [t \in {"Starter", "Growth", "Pro", "Enterprise"} |->
        CASE t = "Starter" -> 5000 [] t = "Growth" -> 1200
          [] t = "Pro" -> 300 [] t = "Enterprise" -> 50]

pricing ==
    [t \in {"Starter", "Growth", "Pro", "Enterprise"} |->
        CASE t = "Starter" -> 10 [] t = "Growth" -> 250
          [] t = "Pro" -> 800 [] t = "Enterprise" -> 5000]

\* df["Monthly_Revenue"] = df["Num_Customers"] * df["Price"]
MonthlyRevenue(num_customers, price) == num_customers * price

\* df["Annual_Revenue"] = df["Monthly_Revenue"] * 12
AnnualRevenue_Quarterly(monthly_revenue) == monthly_revenue * 4

AnnualRevenue(monthly_revenue) == monthly_revenue * 12

TierRow(tier, num_customers, price) ==
    LET monthly == MonthlyRevenue(num_customers, price)
    IN  [Tier |-> tier, Num_Customers |-> num_customers, Price |-> price,
         Monthly_Revenue |-> monthly, Annual_Revenue |-> AnnualRevenue(monthly)]

\* the table the revenue simulation cell builds
TierTable == [i \in DOMAIN Tiers |-> TierRow(Tiers[i], customers[Tiers[i]], pricing[Tiers[i]])]

\* plt.savefig('../report/graphics/tiering_revenue.png')
TieringFigure == "cohere_case_study/report/graphics/tiering_revenue.png"

(* ------------------------------------------------------------------ *)
(* Customer Profitability Modeling                                     *)
(* ------------------------------------------------------------------ *)
(* Every draw is .round(2)-ed as it is made, so each amount is the     *)
(* double nearest to a whole number of cents and each Gross_Margin the *)
(* double nearest to a whole number of hundredths.  The tables hold    *)
(* that whole number; R(c, 100) is the double the DataFrame holds.     *)

\* n_customers = 150
n_customers == 150

\* .clip(lower=20000) and .clip(lower=5000), in cents
AnnualRevenueFloor == 2000000
CACFloor == 500000

\* The generator is a deterministic function of its state.  State 0 is the one
\* np.random.seed(42) puts it in; state k is the one it is in after k data dicts
\* have been drawn from state 0.
MaxRngState == 1

RngStates == 0..MaxRngState

Seed42State == 0

\* np.random.seed(42): whatever the state was, it is the seed's state afterwards
SeedGenerator_Skipped(state) == state

SeedGenerator(state) == Seed42State

\* What np.random.choice / normal / uniform / normal / randint yield, row by row as
\* <<Segment, Annual_Revenue in cents, Gross_Margin in hundredths, CAC in cents,
\* Retention_Years>>.
\* the table drawn right after np.random.seed(42)
DrawsFromSeed42 ==
    << <<"Startup", 9422917, 64, 1580139, 5>>, <<"Government", 10904642, 71, 1700304, 3>>, <<"Enterprise", 9895865, 70, 938052, 4>>,
       <<"Enterprise", 6493966, 75, 1737122, 5>>, <<"Startup", 13428468, 76, 1620434, 3>>, <<"Startup", 12255799, 61, 2075197, 3>>,
       <<"Startup", 12373096, 69, 2170878, 1>>, <<"Government", 7271838, 76, 2938085, 2>>, <<"Enterprise", 14208383, 73, 2475212, 2>>,
       <<"Enterprise", 5794447, 81, 1711548, 5>>, <<"Startup", 11760571, 76, 1550793, 2>>, <<"Government", 16571367, 64, 2245960, 4>>,
       <<"Government", 7028391, 62, 1339883, 2>>, <<"Startup", 8301107, 76, 2915729, 5>>, <<"Startup", 10298954, 61, 2589720, 2>>,
       <<"Startup", 8489573, 75, 1765412, 4>>, <<"Startup", 5348010, 84, 1143433, 1>>, <<"Enterprise", 10205689, 74, 2676936, 5>>,
       <<"Startup", 6813089, 70, 1942730, 1>>, <<"Startup", 11420777, 76, 2618908, 1>>, <<"Enterprise", 7241727, 71, 1202786, 1>>,
       <<"Startup", 14649803, 74, 1700312, 3>>, <<"Startup", 7650240, 84, 2002622, 3>>, <<"Startup", 9033815, 70, 2023490, 1>>,
       <<"Startup", 12440552, 84, 1774967, 5>>, <<"Enterprise", 6307407, 83, 2311425, 4>>, <<"Startup", 10682380, 65, 1466190, 4>>,
       <<"Enterprise", 13921428, 62, 1928810, 2>>, <<"Enterprise", 5177550, 63, 2060148, 5>>, <<"Startup", 10553902, 60, 2257219, 3>>,
       <<"Enterprise", 10779648, 62, 2355807, 1>>, <<"Startup", 12345469, 77, 1437679, 2>>, <<"Startup", 6289148, 62, 1232943, 4>>,
       <<"Government", 6038630, 68, 2638838, 3>>, <<"Government", 11565825, 81, 2166157, 3>>, <<"Government", 10890954, 61, 1625757, 1>>,
       <<"Startup", 10751479, 80, 2775576, 4>>, <<"Startup", 11039345, 67, 2057837, 5>>, <<"Enterprise", 7959926, 63, 2589649, 3>>,
       <<"Startup", 10696761, 77, 2033759, 1>>, <<"Startup", 10879217, 76, 3030374, 5>>, <<"Startup", 7856946, 82, 2877670, 4>>,
       <<"Startup", 15597324, 78, 1875518, 3>>, <<"Government", 11421499, 80, 2485785, 5>>, <<"Startup", 6426090, 67, 2322688, 5>>,
       <<"Enterprise", 11969661, 64, 2684316, 5>>, <<"Startup", 7075955, 79, 1517538, 3>>, <<"Enterprise", 12361254, 80, 2343026, 3>>,
       <<"Enterprise", 13475787, 85, 2529212, 2>>, <<"Startup", 7537953, 70, 1120630, 4>>, <<"Government", 12890128, 69, 1408371, 1>>,
       <<"Enterprise", 11238343, 79, 980384, 5>>, <<"Government", 12466180, 69, 1865297, 2>>, <<"Government", 15690379, 83, 2358771, 1>>,
       <<"Enterprise", 9263836, 81, 2751179, 2>>, <<"Government", 7738792, 71, 2037047, 3>>, <<"Startup", 7331457, 79, 2814308, 5>>,
       <<"Startup", 7552569, 79, 1309949, 1>>, <<"Startup", 9768695, 63, 1148309, 1>>, <<"Startup", 11023456, 83, 1972226, 1>>,
       <<"Startup", 10830072, 73, 2192033, 1>>, <<"Startup", 12481550, 81, 1983653, 1>>, <<"Government", 10039006, 68, 966279, 2>>,
       <<"Startup", 14360602, 82, 1955440, 5>>, <<"Startup", 9206030, 70, 1347765, 3>>, <<"Enterprise", 18160507, 60, 2334836, 3>>,
       <<"Startup", 11877002, 83, 2183299, 3>>, <<"Government", 7428527, 62, 1530060, 3>>, <<"Startup", 6787323, 68, 1743067, 2>>,
       <<"Government", 11447417, 84, 1470393, 4>>, <<"Enterprise", 9329612, 84, 1968660, 5>>, <<"Startup", 12142001, 74, 2477571, 1>>,
       <<"Startup", 11419713, 76, 1507137, 4>>, <<"Government", 9781513, 71, 2252023, 3>>, <<"Enterprise", 7459619, 67, 1734871, 4>>,
       <<"Enterprise", 5455458, 68, 1603564, 5>>, <<"Enterprise", 8660455, 77, 1946485, 1>>, <<"Startup", 12569196, 79, 1482379, 1>>,
       <<"Startup", 10642281, 80, 1723175, 5>>, <<"Startup", 6262784, 80, 1401061, 5>>, <<"Government", 10519543, 62, 2982363, 3>>,
       <<"Enterprise", 11155952, 72, 2017632, 1>>, <<"Startup", 7348428, 61, 1650137, 4>>, <<"Startup", 10461175, 74, 2106990, 2>>,
       <<"Startup", 10174626, 71, 1943836, 2>>, <<"Startup", 6571089, 82, 1889515, 5>>, <<"Enterprise", 11073362, 69, 2307083, 3>>,
       <<"Enterprise", 11682354, 63, 2378754, 2>>, <<"Government", 13249154, 64, 1734749, 1>>, <<"Startup", 13161406, 79, 1712091, 5>>,
       <<"Startup", 5866992, 75, 1862474, 4>>, <<"Enterprise", 7186525, 63, 849039, 5>>, <<"Enterprise", 11545106, 62, 1242404, 4>>,
       <<"Enterprise", 11541358, 78, 2683437, 5>>, <<"Enterprise", 11545143, 62, 2822484, 5>>, <<"Startup", 21558194, 81, 1875482, 5>>,
       <<"Enterprise", 11712672, 78, 2288278, 4>>, <<"Startup", 13406697, 62, 2155625, 4>>, <<"Startup", 12862005, 62, 3539440, 5>>,
       <<"Startup", 11954174, 85, 2559787, 2>>, <<"Startup", 9054192, 69, 1936041, 3>>, <<"Enterprise", 12276908, 69, 1522230, 3>>,
       <<"Startup", 7681524, 80, 1196777, 3>>, <<"Enterprise", 9289544, 84, 2101732, 4>>, <<"Government", 8543909, 85, 1621825, 4>>,
       <<"Startup", 10245622, 79, 1288873, 2>>, <<"Startup", 16943976, 69, 1676714, 3>>, <<"Enterprise", 4398204, 62, 1459226, 3>>,
       <<"Startup", 12058781, 79, 2843571, 5>>, <<"Startup", 5161852, 74, 2440820, 4>>, <<"Startup", 8584204, 71, 1996014, 3>>,
       <<"Startup", 13266852, 83, 2739972, 2>>, <<"Government", 10192840, 63, 2038684, 2>>, <<"Government", 6766766, 72, 1569358, 3>>,
       <<"Enterprise", 7854089, 60, 2761562, 4>>, <<"Government", 12038793, 72, 2269455, 2>>, <<"Government", 7808900, 61, 1481377, 5>>,
       <<"Startup", 10649376, 63, 1904831, 2>>, <<"Government", 10136716, 63, 1562191, 1>>, <<"Enterprise", 8045199, 76, 1308600, 1>>,
       <<"Government", 16431832, 79, 2463089, 4>>, <<"Government", 11901757, 75, 2954708, 3>>, <<"Startup", 3924572, 84, 1300716, 4>>,
       <<"Startup", 10559363, 69, 2281485, 4>>, <<"Startup", 8014641, 67, 1674679, 4>>, <<"Startup", 12557300, 82, 1756437, 4>>,
       <<"Government", 7622438, 66, 1703803, 5>>, <<"Government", 9655791, 84, 1568005, 5>>, <<"Startup", 11514962, 60, 2024261, 2>>,
       <<"Enterprise", 12597266, 84, 1584525, 1>>, <<"Startup", 6399111, 61, 2135228, 4>>, <<"Startup", 8996496, 82, 1974881, 2>>,
       <<"Startup", 8575164, 73, 1880526, 1>>, <<"Startup", 8040012, 85, 1546218, 3>>, <<"Government", 15296363, 62, 1711614, 5>>,
       <<"Startup", 11214945, 74, 2377696, 1>>, <<"Enterprise", 6217348, 84, 2250459, 3>>, <<"Enterprise", 12753586, 73, 1511222, 1>>,
       <<"Startup", 16366469, 76, 2049666, 5>>, <<"Government", 13097396, 77, 2375694, 5>>, <<"Government", 5441890, 71, 1165297, 2>>,
       <<"Startup", 8547298, 76, 2271680, 4>>, <<"Startup", 13800733, 75, 1668688, 1>>, <<"Startup", 7876992, 83, 2285299, 1>>,
       <<"Startup", 11331458, 61, 1618370, 3>>, <<"Startup", 12323902, 67, 1097559, 5>>, <<"Enterprise", 7219209, 84, 1186229, 1>>,
       <<"Enterprise", 9821424, 82, 2024042, 5>>, <<"Startup", 276198, 71, 2129861, 1>>, <<"Startup", 6926837, 76, 1547842, 2>> >>

\* the table drawn next, from the state the seeded draws leave the generator in
DrawsAfterOneRun ==
    << <<"Government", 11479954, 76, 1839826, 2>>, <<"Startup", 10554508, 66, 2212083, 4>>, <<"Startup", 7424927, 76, 2261418, 3>>,
       <<"Startup", 12100930, 73, 1713150, 3>>, <<"Enterprise", 8273087, 79, 1987823, 5>>, <<"Government", 10366029, 63, 3071135, 5>>,
       <<"Startup", 17680254, 79, 2863772, 3>>, <<"Startup", 9711820, 74, 2218162, 5>>, <<"Enterprise", 13447820, 84, 2019002, 4>>,
       <<"Startup", 7890471, 69, 2060016, 1>>, <<"Startup", 9895035, 76, 2306759, 4>>, <<"Startup", 15312402, 83, 1488604, 3>>,
       <<"Startup", 8119099, 63, 1871312, 3>>, <<"Startup", 15437346, 83, 1165708, 4>>, <<"Startup", 12123256, 77, 2199612, 5>>,
       <<"Startup", 8312600, 62, 2323598, 5>>, <<"Government", 11897223, 68, 1758407, 3>>, <<"Startup", 12917663, 78, 2786993, 2>>,
       <<"Enterprise", 11865430, 62, 1387117, 5>>, <<"Enterprise", 5289326, 75, 1267813, 4>>, <<"Startup", 7818588, 69, 2112226, 5>>,
       <<"Enterprise", 9257444, 76, 2523549, 4>>, <<"Startup", 9776700, 61, 2841964, 3>>, <<"Government", 11862016, 82, 1770558, 5>>,
       <<"Startup", 10533103, 84, 2539340, 4>>, <<"Startup", 5993967, 84, 1980746, 3>>, <<"Startup", 11140594, 79, 1913686, 2>>,
       <<"Government", 11831757, 63, 2441830, 4>>, <<"Enterprise", 11679371, 79, 2326161, 2>>, <<"Enterprise", 13242342, 61, 1211804, 2>>,
       <<"Startup", 12501766, 61, 2738270, 1>>, <<"Enterprise", 11377540, 68, 2690046, 5>>, <<"Startup", 9789503, 72, 1687219, 4>>,
       <<"Government", 5017117, 79, 2197902, 2>>, <<"Startup", 11288855, 77, 2247015, 1>>, <<"Startup", 10623063, 71, 2130337, 3>>,
       <<"Startup", 10814737, 67, 1724847, 4>>, <<"Startup", 6169754, 85, 1664188, 2>>, <<"Enterprise", 6756830, 71, 1987223, 5>>,
       <<"Startup", 13159459, 71, 2586365, 1>>, <<"Enterprise", 9881335, 64, 2271800, 2>>, <<"Startup", 12044502, 80, 1814693, 5>>,
       <<"Enterprise", 10084955, 77, 2385849, 2>>, <<"Startup", 10089268, 66, 575729, 4>>, <<"Startup", 12814851, 62, 2574383, 4>>,
       <<"Enterprise", 8451866, 77, 1130143, 4>>, <<"Startup", 10288362, 76, 1818780, 1>>, <<"Startup", 8613174, 67, 1440165, 4>>,
       <<"Government", 8696511, 84, 1352659, 5>>, <<"Government", 9072484, 64, 2580413, 2>>, <<"Startup", 10666401, 71, 1766149, 3>>,
       <<"Startup", 8563754, 84, 2173252, 5>>, <<"Enterprise", 13767268, 70, 1976540, 5>>, <<"Startup", 7316178, 76, 2238520, 4>>,
       <<"Startup", 9439385, 70, 2038411, 1>>, <<"Startup", 8680807, 67, 1358504, 2>>, <<"Enterprise", 14340934, 85, 2498133, 1>>,
       <<"Enterprise", 10589664, 70, 1753122, 2>>, <<"Startup", 13095534, 82, 1221709, 2>>, <<"Startup", 5543319, 66, 1785942, 1>>,
       <<"Startup", 10801151, 65, 2750380, 5>>, <<"Enterprise", 12668892, 61, 2425111, 2>>, <<"Startup", 10246852, 76, 1825674, 1>>,
       <<"Startup", 13196441, 69, 1825371, 2>>, <<"Enterprise", 8448135, 82, 1839182, 3>>, <<"Startup", 14228042, 72, 3038374, 5>>,
       <<"Enterprise", 16896694, 84, 2190968, 4>>, <<"Startup", 8911484, 65, 2215021, 2>>, <<"Startup", 8663492, 82, 2515142, 3>>,
       <<"Startup", 14360153, 79, 2119395, 4>>, <<"Enterprise", 14738716, 79, 1870479, 4>>, <<"Government", 8431420, 81, 1901825, 2>>,
       <<"Government", 8739440, 79, 1964199, 1>>, <<"Startup", 9154646, 76, 1981389, 2>>, <<"Enterprise", 5966648, 63, 2363815, 3>>,
       <<"Startup", 7244044, 61, 2025973, 4>>, <<"Startup", 6987578, 83, 2366320, 2>>, <<"Government", 7696607, 75, 1959642, 1>>,
       <<"Startup", 9895945, 80, 2039318, 2>>, <<"Startup", 10702644, 72, 1000900, 5>>, <<"Startup", 14651501, 63, 2458164, 1>>,
       <<"Startup", 7004938, 63, 2173244, 3>>, <<"Startup", 12952967, 77, 2499005, 4>>, <<"Enterprise", 9358033, 71, 551872, 2>>,
       <<"Startup", 9851609, 65, 3044187, 1>>, <<"Government", 12024458, 72, 1930205, 5>>, <<"Government", 6631834, 62, 2554091, 1>>,
       <<"Startup", 11147229, 75, 1480047, 5>>, <<"Startup", 10499357, 67, 2306387, 3>>, <<"Startup", 11477354, 80, 1473292, 4>>,
       <<"Enterprise", 10867506, 68, 1688116, 3>>, <<"Startup", 17365900, 71, 2957016, 2>>, <<"Enterprise", 8086780, 60, 1904659, 1>>,
       <<"Startup", 8407009, 62, 2108716, 5>>, <<"Enterprise", 8130578, 70, 2435034, 5>>, <<"Startup", 8333569, 72, 2247841, 1>>,
       <<"Startup", 8087839, 75, 2075209, 1>>, <<"Government", 13567050, 67, 2182481, 2>>, <<"Enterprise", 14261513, 77, 3201708, 3>>,
       <<"Startup", 8287761, 82, 1971191, 5>>, <<"Government", 7502933, 79, 2100550, 2>>, <<"Startup", 11414247, 61, 2525327, 3>>,
       <<"Government", 8343331, 72, 2552763, 2>>, <<"Enterprise", 11898795, 63, 2593515, 5>>, <<"Startup", 10608769, 66, 2319365, 1>>,
       <<"Startup", 5452768, 85, 1428498, 1>>, <<"Startup", 14642516, 64, 2816716, 3>>, <<"Enterprise", 15387633, 72, 1426827, 4>>,
       <<"Enterprise", 8161634, 75, 2151318, 3>>, <<"Startup", 8836895, 78, 1622862, 4>>, <<"Startup", 10857596, 74, 1967931, 2>>,
       <<"Government", 11003370, 60, 2164381, 2>>, <<"Government", 11975633, 68, 2160679, 5>>, <<"Enterprise", 16030614, 73, 2210960, 4>>,
       <<"Startup", 9469158, 62, 2806856, 5>>, <<"Startup", 7605108, 69, 2226767, 1>>, <<"Startup", 5862042, 61, 1877922, 4>>,
       <<"Government", 7807210, 62, 2482044, 3>>, <<"Startup", 9900619, 70, 2594735, 1>>, <<"Enterprise", 15383674, 63, 1386196, 1>>,
       <<"Startup", 8447166, 74, 2298700, 3>>, <<"Enterprise", 10671364, 77, 2350586, 1>>, <<"Enterprise", 9950731, 80, 1851218, 4>>,
       <<"Government", 13565180, 65, 2687853, 5>>, <<"Startup", 17580797, 64, 1924972, 1>>, <<"Startup", 8407394, 63, 2062788, 4>>,
       <<"Startup", 8531682, 76, 1913464, 2>>, <<"Government", 13132483, 78, 2007790, 4>>, <<"Government", 12045674, 61, 1451862, 5>>,
       <<"Enterprise", 15540122, 83, 1279975, 4>>, <<"Enterprise", 11751785, 61, 2797253, 3>>, <<"Enterprise", 8922124, 74, 1576519, 5>>,
       <<"Startup", 11771964, 78, 1504304, 2>>, <<"Government", 13326111, 82, 923305, 3>>, <<"Startup", 12461447, 78, 1680519, 4>>,
       <<"Startup", 11521822, 80, 1338455, 5>>, <<"Enterprise", 13200024, 68, 2821008, 2>>, <<"Startup", 13507887, 80, 2504909, 3>>,
       <<"Startup", 14146477, 62, 1655925, 2>>, <<"Enterprise", 11946130, 82, 3126218, 4>>, <<"Startup", 9498646, 74, 2490883, 2>>,
       <<"Enterprise", 10440141, 80, 1837584, 1>>, <<"Startup", 13619527, 71, 750297, 3>>, <<"Startup", 7549193, 76, 3145471, 2>>,
       <<"Startup", 11106020, 73, 1305214, 4>>, <<"Startup", 8819984, 78, 1177301, 4>>, <<"Enterprise", 10086234, 62, 2511285, 2>>,
       <<"Startup", 13835356, 62, 3219876, 4>>, <<"Enterprise", 10573297, 66, 2692136, 5>>, <<"Startup", 10139310, 64, 2281955, 5>> >>

\* the table drawn after that
DrawsAfterTwoRuns ==
    << <<"Enterprise", 11395136, 77, 1786786, 3>>, <<"Enterprise", 10499958, 85, 2044831, 3>>, <<"Startup", 10975530, 79, 2678039, 3>>,
       <<"Startup", 9499828, 78, 1602720, 5>>, <<"Startup", 12426788, 84, 1724654, 5>>, <<"Government", 7868642, 65, 2472145, 1>>,
       <<"Startup", 9944953, 74, 1570330, 4>>, <<"Startup", 13935352, 84, 2571193, 3>>, <<"Government", 7153835, 64, 1995457, 4>>,
       <<"Startup", 3514464, 78, 2151561, 5>>, <<"Startup", 11099371, 75, 2183761, 5>>, <<"Startup", 9229137, 75, 1691890, 5>>,
       <<"Government", 13032587, 77, 2194943, 4>>, <<"Startup", 9608455, 83, 1613815, 5>>, <<"Enterprise", 8186983, 80, 1748948, 1>>,
       <<"Enterprise", 9772548, 61, 2279345, 5>>, <<"Startup", 13279206, 81, 2146697, 2>>, <<"Enterprise", 11726109, 66, 1962518, 4>>,
       <<"Startup", 2698293, 69, 1370634, 2>>, <<"Startup", 10557302, 72, 1495421, 5>>, <<"Enterprise", 10707286, 72, 2138355, 1>>,
       <<"Government", 9945250, 71, 2366070, 3>>, <<"Enterprise", 8167330, 83, 1445177, 5>>, <<"Enterprise", 13583596, 78, 1580087, 1>>,
       <<"Startup", 13732102, 76, 2067093, 4>>, <<"Startup", 3390519, 61, 2056394, 2>>, <<"Startup", 7606122, 83, 1188021, 2>>,
       <<"Startup", 9565808, 83, 2080782, 2>>, <<"Startup", 12845525, 80, 1700816, 4>>, <<"Startup", 10104559, 60, 2820523, 1>>,
       <<"Startup", 7949219, 61, 2124599, 4>>, <<"Startup", 12128601, 66, 2210737, 2>>, <<"Enterprise", 9365992, 63, 2223680, 5>>,
       <<"Government", 9647797, 70, 1393036, 3>>, <<"Startup", 9918525, 83, 2971938, 4>>, <<"Government", 11722925, 72, 1188544, 4>>,
       <<"Government", 9074351, 60, 2397852, 1>>, <<"Startup", 12060839, 67, 2309332, 1>>, <<"Enterprise", 9780793, 61, 1761499, 4>>,
       <<"Enterprise", 6798950, 61, 2333225, 2>>, <<"Enterprise", 9889671, 67, 1841213, 3>>, <<"Startup", 6954360, 67, 1662269, 1>>,
       <<"Enterprise", 10122960, 80, 2234780, 2>>, <<"Startup", 12488422, 84, 1496720, 5>>, <<"Enterprise", 6779113, 69, 1887872, 1>>,
       <<"Enterprise", 11092820, 71, 1702912, 2>>, <<"Enterprise", 7512888, 81, 1832010, 2>>, <<"Enterprise", 10605102, 67, 2216364, 3>>,
       <<"Enterprise", 12580613, 64, 1702817, 3>>, <<"Startup", 3611461, 81, 1903838, 5>>, <<"Startup", 6656573, 61, 1748427, 2>>,
       <<"Government", 8893062, 75, 2721998, 2>>, <<"Startup", 10945121, 74, 2171306, 3>>, <<"Startup", 9500850, 69, 2110035, 1>>,
       <<"Startup", 9862358, 68, 2341709, 1>>, <<"Startup", 16128954, 79, 1702933, 4>>, <<"Government", 6362628, 62, 2429629, 3>>,
       <<"Enterprise", 13406455, 66, 2173089, 4>>, <<"Government", 8950066, 78, 1219555, 3>>, <<"Enterprise", 11648424, 74, 1285985, 5>>,
       <<"Startup", 16386840, 63, 1713851, 2>>, <<"Startup", 12066034, 82, 1339497, 5>>, <<"Enterprise", 11117487, 70, 1880861, 3>>,
       <<"Startup", 14797367, 81, 1493131, 2>>, <<"Government", 13374396, 80, 1951138, 1>>, <<"Government", 7601818, 76, 2705855, 1>>,
       <<"Startup", 10883574, 72, 1975312, 4>>, <<"Government", 4847513, 84, 1848518, 3>>, <<"Government", 8379540, 64, 2194121, 3>>,
       <<"Enterprise", 10942159, 78, 1651790, 1>>, <<"Startup", 8193684, 65, 2421707, 5>>, <<"Startup", 10820100, 68, 2247606, 2>>,
       <<"Enterprise", 9959846, 68, 2019433, 5>>, <<"Startup", 11609250, 84, 2077158, 5>>, <<"Startup", 8727403, 84, 3020873, 1>>,
       <<"Enterprise", 7179553, 65, 2471156, 1>>, <<"Startup", 14434380, 61, 3099763, 1>>, <<"Enterprise", 8512910, 78, 2266015, 4>>,
       <<"Government", 11980032, 70, 1264154, 5>>, <<"Government", 14305741, 62, 1868913, 3>>, <<"Startup", 10488010, 77, 1149898, 2>>,
       <<"Government", 7431080, 74, 2264152, 4>>, <<"Startup", 9464170, 85, 2372702, 3>>, <<"Startup", 13052623, 66, 1557042, 5>>,
       <<"Enterprise", 10618743, 70, 1672182, 1>>, <<"Startup", 6384575, 74, 2074375, 5>>, <<"Startup", 11789932, 80, 1400948, 2>>,
       <<"Enterprise", 12308594, 74, 1363420, 4>>, <<"Startup", 8934064, 75, 2619316, 4>>, <<"Startup", 11830733, 66, 2057355, 2>>,
       <<"Startup", 10735056, 81, 1720945, 3>>, <<"Enterprise", 9407711, 71, 1153941, 3>>, <<"Enterprise", 6119393, 64, 2426176, 4>>,
       <<"Startup", 13233862, 77, 1657741, 4>>, <<"Startup", 12277633, 65, 2930342, 1>>, <<"Startup", 11751659, 62, 2429655, 3>>,
       <<"Startup", 14633578, 82, 1595929, 2>>, <<"Enterprise", 12835581, 72, 1642264, 3>>, <<"Startup", 12059698, 79, 2860926, 1>>,
       <<"Startup", 3360318, 67, 1957870, 4>>, <<"Enterprise", 13590685, 80, 1743344, 4>>, <<"Enterprise", 10249242, 63, 2013861, 1>>,
       <<"Enterprise", 10937475, 69, 1741044, 2>>, <<"Startup", 10958000, 84, 2120524, 4>>, <<"Startup", 12321498, 80, 1962088, 5>>,
       <<"Startup", 13366525, 72, 2437754, 4>>, <<"Startup", 11902723, 68, 1805713, 5>>, <<"Enterprise", 11425857, 82, 1557592, 1>>,
       <<"Government", 10694538, 74, 1825508, 1>>, <<"Enterprise", -54832, 79, 1822458, 4>>, <<"Enterprise", 9137227, 79, 1961233, 3>>,
       <<"Startup", 7175231, 60, 2317270, 5>>, <<"Enterprise", 13632219, 63, 2289954, 2>>, <<"Startup", 11857112, 76, 2599829, 4>>,
       <<"Enterprise", 8625589, 64, 1594255, 2>>, <<"Startup", 8926848, 66, 2194360, 4>>, <<"Startup", 8818056, 84, 2363660, 3>>,
       <<"Startup", 8764522, 74, 1662890, 3>>, <<"Government", 5666328, 79, 1896184, 3>>, <<"Startup", 5016162, 74, 1125011, 3>>,
       <<"Startup", 10087140, 74, 2453429, 1>>, <<"Startup", 13225942, 62, 1892251, 1>>, <<"Enterprise", 8386931, 69, 2403282, 5>>,
       <<"Enterprise", 10910334, 67, 2103025, 2>>, <<"Enterprise", 12202783, 70, 1907417, 4>>, <<"Startup", 7019865, 80, 1203599, 4>>,
       <<"Enterprise", 9940074, 69, 1292524, 1>>, <<"Startup", 8000439, 71, 703427, 4>>, <<"Government", 14818358, 70, 1718693, 1>>,
       <<"Enterprise", 14687379, 62, 3139124, 5>>, <<"Startup", 7022971, 71, 1356026, 2>>, <<"Startup", 11157653, 65, 684284, 5>>,
       <<"Startup", 13202798, 65, 2481334, 3>>, <<"Startup", 12544989, 62, 3181859, 3>>, <<"Startup", 10244689, 69, 2148961, 3>>,
       <<"Enterprise", 13919672, 79, 2144366, 5>>, <<"Startup", 7286456, 67, 1845059, 4>>, <<"Startup", 9090721, 68, 1102871, 2>>,
       <<"Startup", 7367073, 76, 1274644, 3>>, <<"Startup", 12347480, 65, 1841623, 3>>, <<"Government", 8252089, 82, 1745772, 3>>,
       <<"Startup", 9486252, 73, 1942414, 2>>, <<"Enterprise", 11853011, 71, 2414662, 3>>, <<"Government", 12094750, 74, 1709081, 2>>,
       <<"Enterprise", 7278621, 64, 2424858, 3>>, <<"Government", 13169966, 75, 1712355, 5>>, <<"Startup", 11367069, 69, 2519120, 5>>,
       <<"Government", 6754891, 82, 2043184, 2>>, <<"Startup", 6016852, 64, 1782085, 5>>, <<"Startup", 9952541, 73, 2034647, 2>> >>

DrawTables == <<DrawsFromSeed42, DrawsAfterOneRun, DrawsAfterTwoRuns>>

\* one customer of the data dict
DrawRow(i, d) ==
    [Customer_ID     |-> i,
     Segment         |-> d[1],
     Annual_Revenue  |-> d[2],
     Gross_Margin    |-> d[3],
     CAC             |-> d[4],
     Retention_Years |-> d[5]]

\* data = {'Customer_ID': range(1, n_customers + 1), 'Segment': ..., ...} drawn
\* from a generator in this state
Draws(state) == [i \in 1..n_customers |-> DrawRow(i, DrawTables[state + 1][i])]

\* the state the draws of one data dict leave the generator in
AfterDraws(state) == state + 1

\* Series.clip(lower=...)
Clip_Upper(x, lower) == IF x > lower THEN lower ELSE x

Clip(x, lower) == IF x < lower THEN lower ELSE x

\* df = pd.DataFrame(data) followed by the two clips
DataSetup(d) ==
    [i \in DOMAIN d |->
        [Customer_ID     |-> d[i].Customer_ID,
         Segment         |-> d[i].Segment,
         Annual_Revenue  |-> Clip(d[i].Annual_Revenue, AnnualRevenueFloor),
         Gross_Margin    |-> d[i].Gross_Margin,
         CAC             |-> Clip(d[i].CAC, CACFloor),
         Retention_Years |-> d[i].Retention_Years]]

\* Series.round(2) of a float: rint(x * 100) / 100, held as the whole number
\* rint(x * 100)
Round2(x) == FormatScaled(RMul(x, RInt(100)), 1)

\* (df['Annual_Revenue'] * df['Gross_Margin'] * df['Retention_Years']).round(2),
\* in cents
CLTV_NoRetention(annual_revenue_c, gross_margin_h, retention_years) ==
    Round2(RMul(R(annual_revenue_c, 100), R(gross_margin_h, 100)))

CLTV(annual_revenue_c, gross_margin_h, retention_years) ==
    Round2(RMul(RMul(R(annual_revenue_c, 100), R(gross_margin_h, 100)),
                RInt(retention_years)))

HasCLTV(table) == \E i \in DOMAIN table : "CLTV" \in DOMAIN table[i]

HasRatio(table) == \E i \in DOMAIN table : "CLTV_CAC_Ratio" \in DOMAIN table[i]

\* one row of df with its CLTV; an existing CLTV_CAC_Ratio column is kept as it is
CLTVRow(row, cltv) ==
    IF "CLTV_CAC_Ratio" \in DOMAIN row
    THEN [Customer_ID |-> row.Customer_ID, Segment |-> row.Segment,
          Annual_Revenue |-> row.Annual_Revenue,
          Gross_Margin |-> row.Gross_Margin, CAC |-> row.CAC,
          Retention_Years |-> row.Retention_Years, CLTV |-> cltv,
          CLTV_CAC_Ratio |-> row.CLTV_CAC_Ratio]
    ELSE [Customer_ID |-> row.Customer_ID, Segment |-> row.Segment,
          Annual_Revenue |-> row.Annual_Revenue,
          Gross_Margin |-> row.Gross_Margin, CAC |-> row.CAC,
          Retention_Years |-> row.Retention_Years, CLTV |-> cltv]

\* df['CLTV'] = (df['Annual_Revenue'] * df['Gross_Margin']) * df['Retention_Years']
\* df['CLTV'] = df['CLTV'].round(2)
WithCLTV(table) ==
    [i \in DOMAIN table |->
        CLTVRow(table[i], CLTV(table[i].Annual_Revenue, table[i].Gross_Margin,
                               table[i].Retention_Years))]

\* (df['CLTV'] / df['CAC']).round(2), in hundredths
Ratio_Inverted(cltv_c, cac_c) == Round2(RDiv(R(cac_c, 100), R(cltv_c, 100)))

Ratio(cltv_c, cac_c) == Round2(RDiv(R(cltv_c, 100), R(cac_c, 100)))

\* one row of df with its CLTV_CAC_Ratio
RatioRow(row) ==
    [Customer_ID |-> row.Customer_ID, Segment |-> row.Segment,
     Annual_Revenue |-> row.Annual_Revenue,
     Gross_Margin |-> row.Gross_Margin, CAC |-> row.CAC,
     Retention_Years |-> row.Retention_Years, CLTV |-> row.CLTV,
     CLTV_CAC_Ratio |-> Ratio(row.CLTV, row.CAC)]

\* df['CLTV_CAC_Ratio'] = (df['CLTV'] / df['CAC']).round(2)
WithRatio(table) == [i \in DOMAIN table |-> RatioRow(table[i])]

(* ------------------------------------------------------------------ *)
(* Code cells                                                          *)
(* ------------------------------------------------------------------ *)
(* The cells of type code of each notebook, numbered top to bottom.    *)

UE   == "07_unit_economics"
COMP == "competitive_analysis"
AUE  == "anthropic_unit_economics"
GTM  == "gtm_pricing_analysis"
TIER == "03_product_tiering"
PROF == "customer_profitability"

Notebooks == {UE, COMP, AUE, GTM, TIER, PROF}

NumCells(nb) ==
    CASE nb = UE -> 6 [] nb = COMP -> 1 [] nb = AUE -> 2
      [] nb = GTM -> 2 [] nb = TIER -> 2 [] nb = PROF -> 11

\* the source of the cell is Python; the customer-profitability notebook keeps
\* four of its section headings, which are prose, in cells of type code
CellParses(nb, i) == ~(nb = PROF /\ i \in {1, 3, 6, 9})

\* "" when the cell runs to its end in this state, else the exception it raises
CellError(nb, i) ==
    CASE ~CellParses(nb, i) -> "SyntaxError"
      [] nb = UE /\ i = 3 -> IF imported THEN "" ELSE "NameError"
      [] nb = UE /\ i = 4 ->
            IF ~Defined(cohorts) \/ ~Defined(assumptions) THEN "NameError"
            ELSE IF IsJoined(cohorts) THEN "ValueError" ELSE ""
      [] nb = UE /\ i = 5 ->
            IF ~imported \/ ~Defined(cohorts) THEN "NameError"
            ELSE IF ~IsJoined(cohorts) THEN "ValueError" ELSE ""
      [] nb = UE /\ i = 6 ->
            IF ~Defined(cohorts) THEN "NameError"
            ELSE IF ~IsJoined(cohorts) THEN "KeyError"
            ELSE IF ~Defined(assumptions) THEN "NameError" ELSE ""
      [] nb = AUE /\ i = 2 -> IF Defined(prices) THEN "" ELSE "NameError"
      [] nb = TIER /\ i = 2 ->
            IF ~Defined(tier_df) THEN "NameError"
            ELSE IF ~dir_exists THEN "FileNotFoundError" ELSE ""
      [] nb = PROF /\ i \in {4, 5, 7} -> IF Defined(profit_df) THEN "" ELSE "NameError"
      [] nb = PROF /\ i \in {8, 10} ->
            IF ~Defined(profit_df) THEN "NameError"
            ELSE IF ~HasCLTV(profit_df) THEN "KeyError" ELSE ""
      [] nb = PROF /\ i = 11 ->
            IF ~Defined(profit_df) THEN "NameError"
            ELSE IF ~HasRatio(profit_df) THEN "ValueError" ELSE ""
      [] OTHER -> ""

\* plt.show(), a displayed table, print(): inline output only
ShowOutput_SavingFigure ==
    /\ files' = files \cup {"figure.png"}
    /\ UNCHANGED <<imported, assumptions, cohorts, prices, annual_revenue, tier_df, data, profit_df, breakeven, rng>>

ShowOutput == UNCHANGED kernel_vars

\* plt.savefig('../report/graphics/tiering_revenue.png'); plt.show()
SaveTieringFigure ==
    /\ files' = files \cup {TieringFigure}
    /\ UNCHANGED <<imported, assumptions, cohorts, prices, annual_revenue, tier_df, data, profit_df, breakeven, rng>>

\* what the cell does to the kernel and the file system when it runs to its end
CellEffect(nb, i) ==
    CASE nb = UE /\ i = 1 ->
            /\ imported' = TRUE
            /\ UNCHANGED <<assumptions, cohorts, prices, annual_revenue, tier_df, data, profit_df, files, breakeven, rng>>
      [] nb = UE /\ i = 2 ->
            /\ assumptions' = <<Assumptions>>
            /\ UNCHANGED <<imported, cohorts, prices, annual_revenue, tier_df, data, profit_df, files, breakeven, rng>>
      [] nb = UE /\ i = 3 ->
            /\ cohorts' = Cohorts
            /\ UNCHANGED <<imported, assumptions, prices, annual_revenue, tier_df, data, profit_df, files, breakeven, rng>>
      [] nb = UE /\ i = 4 ->
            /\ cohorts' = JoinUnitEconomics(assumptions[1], cohorts)
            /\ UNCHANGED <<imported, assumptions, prices, annual_revenue, tier_df, data, profit_df, files, breakeven, rng>>
      [] nb = UE /\ i = 6 ->
            /\ breakeven' = <<BreakEven(assumptions[1], cohorts)>>
            /\ UNCHANGED <<imported, assumptions, cohorts, prices, annual_revenue, tier_df, data, profit_df, files, rng>>
      [] nb = AUE /\ i = 1 ->
            /\ prices' = <<TokenEconomics(input_tokens, output_tokens)>>
            /\ UNCHANGED <<imported, assumptions, cohorts, annual_revenue, tier_df, data, profit_df, files, breakeven, rng>>
      [] nb = AUE /\ i = 2 ->
            /\ annual_revenue' = <<AnnualRevenue1000>>
            /\ UNCHANGED <<imported, assumptions, cohorts, prices, tier_df, data, profit_df, files, breakeven, rng>>
      [] nb = TIER /\ i = 1 ->
            /\ tier_df' = TierTable
            /\ UNCHANGED <<imported, assumptions, cohorts, prices, annual_revenue, data, profit_df, files, breakeven, rng>>
      [] nb = TIER /\ i = 2 -> SaveTieringFigure
      [] nb = PROF /\ i = 2 ->
            /\ SeedGenerator(rng) < Len(DrawTables)
            /\ data' = Draws(SeedGenerator(rng))
            /\ profit_df' = DataSetup(Draws(SeedGenerator(rng)))
            /\ rng' = AfterDraws(SeedGenerator(rng))
            /\ UNCHANGED <<imported, assumptions, cohorts, prices, annual_revenue, tier_df, files, breakeven>>
      [] nb = PROF /\ i = 7 ->
            /\ profit_df' = WithCLTV(profit_df)
            /\ UNCHANGED <<imported, assumptions, cohorts, prices, annual_revenue, tier_df, data, files, breakeven, rng>>
      [] nb = PROF /\ i = 10 ->
            /\ profit_df' = WithRatio(profit_df)
            /\ UNCHANGED <<imported, assumptions, cohorts, prices, annual_revenue, tier_df, data, files, breakeven, rng>>
      [] OTHER -> ShowOutput

(* ------------------------------------------------------------------ *)
(* Arguments of the functions applied on their own                     *)
(* ------------------------------------------------------------------ *)

MaxTokenSteps == 2
MaxPayment == 2
MaxMillions == 2
MaxTokensM == 5

NoArg == [fn |-> "none"]

\* rows for calculate_unit_economics: the notebook's three cohorts among them
CohortArgs ==
    { [fn |-> "calculate_unit_economics", monthly_tokens |-> t, fine_tune_tokens |-> f,
       payment |-> p] :
        t \in {k * 250000 : k \in 0..MaxTokenSteps} \cup {1500, 10000000, 100000000},
        f \in {0, 250, 50000, 500000},
        p \in (0..MaxPayment) \cup {200, 201, 1500, 25000} }

\* token counts for the revenue / cost / gross margin formulas
TokenArgs ==
    { [fn |-> "token_economics", input_tokens |-> i, output_tokens |-> o] :
        i \in {k * 500000 : k \in 0..(2 * MaxMillions)} \cup {123456},
        o \in {k * 500000 : k \in 0..(2 * MaxMillions)} }

\* millions of tokens for estimate_claude_cost: whole millions, the example's 5
\* and 2 among them, and fractions of a million down to a hundred tokens
EstimateArgs ==
    { [fn |-> "estimate_claude_cost", input_tokens_m |-> i, output_tokens_m |-> o] :
        i \in {RInt(k) : k \in 0..MaxTokensM} \cup {R(1, 2), R(7, 3), R(1, 10000)},
        o \in {RInt(k) : k \in 0..MaxTokensM} \cup {R(1, 4), R(1, 10000)} }

\* What one customer's draws can be.  Annual_Revenue is normal(100000, 30000) and
\* CAC is normal(20000, 5000), so either can fall below its floor or below zero;
\* Gross_Margin is uniform(0.6, 0.85) and Retention_Years is randint(1, 6).  The
\* seeded table's one customer below the revenue floor is among them.
DrawValues ==
    { <<"Startup",    -1234567, 60, 499999,  1>>,
      <<"Enterprise", 2500050,  73, 2000000, 1>>,
      <<"Government", 4012345,  85, -100,    5>>,
      <<"Enterprise", 2000000,  61, 500000,  3>>,
      DrawsFromSeed42[149] }

MaxRows == 2

\* data dicts for the DataFrame set-up: MaxRows customers, any draws each
DataArgs ==
    { [fn |-> "DataSetup",
       data |-> [i \in 1..MaxRows |->
                    [Customer_ID |-> i, Segment |-> d[i][1], Annual_Revenue |-> d[i][2],
                     Gross_Margin |-> d[i][3], CAC |-> d[i][4],
                     Retention_Years |-> d[i][5]]]] :
        d \in [1..MaxRows -> DrawValues] }

Args == CohortArgs \cup TokenArgs \cup EstimateArgs \cup DataArgs

(* ------------------------------------------------------------------ *)
(* Initial states                                                      *)
(* ------------------------------------------------------------------ *)

\* fresh kernels, nothing written; the environment decides whether the report
\* directory exists and what state a fresh kernel's generator is in
InitKernels ==
    /\ imported = FALSE
    /\ assumptions = Undefined
    /\ cohorts = Undefined
    /\ breakeven = Undefined
    /\ prices = Undefined
    /\ annual_revenue = Undefined
    /\ tier_df = Undefined
    /\ data = Undefined
    /\ profit_df = Undefined
    /\ rng \in RngStates
    /\ files = {}
    /\ dir_exists \in BOOLEAN
    /\ pc = [nb \in Notebooks |-> 1]
    /\ halted = [nb \in Notebooks |-> ""]
    /\ res = <<>>

Init == InitKernels /\ arg = NoArg

InitFn == InitKernels /\ arg \in Args

(* ------------------------------------------------------------------ *)
(* Interactive execution: any cell, any time                           *)
(* ------------------------------------------------------------------ *)

\* Shift-Enter on code cell i of notebook nb; a cell that raises changes nothing
Exec(nb, i) ==
    /\ CellError(nb, i) = ""
    /\ CellEffect(nb, i)
    /\ UNCHANGED <<dir_exists, pc, halted, arg, res>>

UE_Imports == Exec(UE, 1)
UE_Assumptions == Exec(UE, 2)
UE_Cohorts == Exec(UE, 3)
UE_UnitEconomics == Exec(UE, 4)
UE_MarginPlot == Exec(UE, 5)
UE_BreakEven == Exec(UE, 6)
COMP_PricingTable == Exec(COMP, 1)
AUE_TokenEconomics == Exec(AUE, 1)
AUE_AnnualRevenue == Exec(AUE, 2)
GTM_EstimateClaudeCost == Exec(GTM, 1)
GTM_EmptyCell == Exec(GTM, 2)
TIER_RevenueSimulation == Exec(TIER, 1)
TIER_RevenuePlot == Exec(TIER, 2)
PROF_DataSetup == Exec(PROF, 2)
PROF_CohortSummary == Exec(PROF, 4)
PROF_CohortPlots == Exec(PROF, 5)
PROF_CLTV == Exec(PROF, 7)
PROF_CLTVPlot == Exec(PROF, 8)
PROF_Ratio == Exec(PROF, 10)
PROF_RatioPlot == Exec(PROF, 11)

\* Kernel > Restart: the notebook's names are gone, the files stay
RestartKernel_SharedKernel(nb) ==
    /\ imported' = FALSE
    /\ assumptions' = Undefined
    /\ cohorts' = Undefined
    /\ breakeven' = Undefined
    /\ prices' = Undefined
    /\ annual_revenue' = Undefined
    /\ tier_df' = Undefined
    /\ data' = Undefined
    /\ profit_df' = Undefined
    /\ rng' \in RngStates
    /\ UNCHANGED <<files, dir_exists, pc, halted, arg, res>>

RestartKernel(nb) ==
    /\ imported' = IF nb = UE THEN FALSE ELSE imported
    /\ assumptions' = IF nb = UE THEN Undefined ELSE assumptions
    /\ cohorts' = IF nb = UE THEN Undefined ELSE cohorts
    /\ breakeven' = IF nb = UE THEN Undefined ELSE breakeven
    /\ prices' = IF nb = AUE THEN Undefined ELSE prices
    /\ annual_revenue' = IF nb = AUE THEN Undefined ELSE annual_revenue
    /\ tier_df' = IF nb = TIER THEN Undefined ELSE tier_df
    /\ data' = IF nb = PROF THEN Undefined ELSE data
    /\ profit_df' = IF nb = PROF THEN Undefined ELSE profit_df
    /\ IF nb = PROF THEN rng' \in RngStates ELSE rng' = rng
    /\ UNCHANGED <<files, dir_exists, pc, halted, arg, res>>

Restart == \E nb \in {UE, AUE, TIER, PROF} : RestartKernel(nb)

Next ==
    \/ UE_Imports \/ UE_Assumptions \/ UE_Cohorts \/ UE_UnitEconomics
    \/ UE_MarginPlot \/ UE_BreakEven
    \/ COMP_PricingTable
    \/ AUE_TokenEconomics \/ AUE_AnnualRevenue
    \/ GTM_EstimateClaudeCost \/ GTM_EmptyCell
    \/ TIER_RevenueSimulation \/ TIER_RevenuePlot
    \/ PROF_DataSetup \/ PROF_CohortSummary \/ PROF_CohortPlots
    \/ PROF_CLTV \/ PROF_CLTVPlot \/ PROF_Ratio \/ PROF_RatioPlot
    \/ Restart

Spec == Init /\ [][Next]_vars

(* ------------------------------------------------------------------ *)
(* Run All: a fresh kernel, the code cells top to bottom               *)
(* ------------------------------------------------------------------ *)

\* the next cell of the run; the run stops at the first cell that raises
RunAllStep(nb) ==
    /\ pc[nb] <= NumCells(nb)
    /\ halted[nb] = ""
    /\ IF CellError(nb, pc[nb]) = ""
       THEN /\ CellEffect(nb, pc[nb])
            /\ pc' = [pc EXCEPT ![nb] = @ + 1]
            /\ UNCHANGED halted
       ELSE /\ halted' = [halted EXCEPT ![nb] = CellError(nb, pc[nb])]
            /\ UNCHANGED <<pc, kernel_vars>>
    /\ UNCHANGED <<dir_exists, arg, res>>

RunAll == \E nb \in Notebooks : RunAllStep(nb)

NextRunAll == RunAll

SpecRunAll == Init /\ [][NextRunAll]_vars

(* ------------------------------------------------------------------ *)
(* A function applied on its own to arguments from a bounded set       *)
(* ------------------------------------------------------------------ *)

Apply_calculate_unit_economics ==
    /\ arg.fn = "calculate_unit_economics"
    /\ res = <<>>
    /\ res' = <<calculate_unit_economics(Assumptions, arg)>>
    /\ UNCHANGED <<kernel_vars, dir_exists, pc, halted, arg>>

Apply_TokenEconomics ==
    /\ arg.fn = "token_economics"
    /\ res = <<>>
    /\ res' = <<TokenEconomics(arg.input_tokens, arg.output_tokens)>>
    /\ UNCHANGED <<kernel_vars, dir_exists, pc, halted, arg>>

Apply_estimate_claude_cost ==
    /\ arg.fn = "estimate_claude_cost"
    /\ res = <<>>
    /\ res' = <<estimate_claude_cost(arg.input_tokens_m, arg.output_tokens_m)>>
    /\ UNCHANGED <<kernel_vars, dir_exists, pc, halted, arg>>

Apply_DataSetup ==
    /\ arg.fn = "DataSetup"
    /\ res = <<>>
    /\ res' = <<DataSetup(arg.data)>>
    /\ UNCHANGED <<kernel_vars, dir_exists, pc, halted, arg>>

NextFn ==
    \/ Apply_calculate_unit_economics
    \/ Apply_TokenEconomics
    \/ Apply_estimate_claude_cost
    \/ Apply_DataSetup

SpecFn == InitFn /\ [][NextFn]_vars

(* ------------------------------------------------------------------ *)
(* Properties                                                          *)
(* ------------------------------------------------------------------ *)

AppliedUnitEconomics == arg.fn = "calculate_unit_economics" /\ Defined(res)

AppliedTokenEconomics == arg.fn = "token_economics" /\ Defined(res)

\* two floats less than a millionth apart
Near(a, b) ==
    LET d == RSub(a, b)
    IN  RLt(IF d.s < 0 THEN RNeg(d) ELSE d, R(1, 1000000))

\* C1: for every cohort row, the margin calculate_unit_economics returns is the
\* row's payment minus the total cost it returns, and margin and total cost add up
\* to the payment again.
C1_MarginPlusCostIsPayment ==
    AppliedUnitEconomics =>
        /\ res[1].margin = RSub(RInt(arg.payment), res[1].total_cost)
        /\ RAdd(res[1].margin, res[1].total_cost) = RInt(arg.payment)

\* a paying row has been evaluated: payment 1500 against a cost of 285 leaves 1215
C1_Witness ==
    /\ AppliedUnitEconomics
    /\ arg.payment = 1500
    /\ res[1].total_cost = RInt(285)
    /\ res[1].margin = RInt(1215)

\* C2: calculate_unit_economics never divides by zero: gross_margin_pct is a number
\* for every row; when payment > 0 it is the float (margin / payment) * 100, which
\* times the payment gives back margin * 100 to within a millionth; when payment is
\* not positive it is 0.
C2_GrossMarginPctGuarded ==
    AppliedUnitEconomics =>
        /\ IsNum(res[1].gross_margin_pct)
        /\ arg.payment > 0 =>
              /\ res[1].gross_margin_pct
                    = RMul(RDiv(res[1].margin, RInt(arg.payment)), RInt(100))
              /\ Near(RMul(res[1].gross_margin_pct, RInt(arg.payment)),
                      RMul(res[1].margin, RInt(100)))
        /\ arg.payment <= 0 => res[1].gross_margin_pct = RInt(0)

\* a free-tier row has been evaluated: payment 0, a negative margin, and 0 percent
C2_Witness ==
    /\ AppliedUnitEconomics
    /\ arg.payment = 0
    /\ RLt(res[1].margin, RInt(0))
    /\ res[1].gross_margin_pct = RInt(0)

IsCohort(name) ==
    \E i \in DOMAIN Cohorts :
        /\ Cohorts[i].name = name
        /\ arg.monthly_tokens = Cohorts[i].monthly_tokens
        /\ arg.fine_tune_tokens = Cohorts[i].fine_tune_tokens
        /\ arg.payment = Cohorts[i].payment

\* C3: for every cohort row total_cost is the inference cost of $0.001 per 1K monthly
\* tokens plus the fine-tuning cost of $1.50 per 1K fine-tune tokens plus $200 of
\* support: it is within a millionth of (tokens + 1500 * fine_tune_tokens +
\* 200000000) millionths of a dollar and shows that amount to four decimals; the
\* notebook's three cohorts get total_cost 200.5 / 285 / 1050, margin -200.5 / 1215
\* / 23950 and gross_margin_pct 0 / 81 / 95.8.
C3_TotalCostAndLiteralCohorts ==
    AppliedUnitEconomics =>
        LET micro == arg.monthly_tokens + 1500 * arg.fine_tune_tokens + 200000000
        IN  /\ Near(res[1].total_cost, R(micro, 1000000))
            /\ micro % 100 = 0
            /\ FormatScaled(res[1].total_cost, 10000) = micro \div 100
            /\ IsCohort("Indie") =>
                  res[1] = [total_cost |-> R(2005, 10), margin |-> R(-2005, 10),
                            gross_margin_pct |-> RInt(0)]
            /\ IsCohort("SMB") =>
                  res[1] = [total_cost |-> RInt(285), margin |-> RInt(1215),
                            gross_margin_pct |-> RInt(81)]
            /\ IsCohort("Enterprise") =>
                  res[1] = [total_cost |-> RInt(1050), margin |-> RInt(23950),
                            gross_margin_pct |-> R(958, 10)]

\* the Enterprise cohort has been evaluated and shows a margin of 95.8 percent
C3_Witness ==
    /\ AppliedUnitEconomics
    /\ IsCohort("Enterprise")
    /\ res[1].total_cost = RInt(1050)
    /\ Format1f(res[1].gross_margin_pct) = 958

\* C4: once the CLTV cell has run, every customer's CLTV is Annual_Revenue *
\* Gross_Margin * Retention_Years rounded to the cent (a whole number of cents
\* within half a cent of the product), with Annual_Revenue the clipped value:
\* the draw when it is at least 20000, and 20000 otherwise.  Annual_Revenue is
\* 100 * q + r cents, so the product is 100 * q * k + r * k hundredths of a cent
\* for k = Gross_Margin * Retention_Years, and CLTV lies d = 0..k cents above q * k.
C4_CLTVFromClippedRevenue ==
    (Defined(profit_df) /\ HasCLTV(profit_df)) =>
        \A i \in DOMAIN profit_df :
            LET row == profit_df[i]
                k   == row.Gross_Margin * row.Retention_Years
                q   == row.Annual_Revenue \div 100
                r   == row.Annual_Revenue % 100
                d   == row.CLTV - q * k
                err == 100 * d - r * k
            IN  /\ row.Annual_Revenue >= AnnualRevenueFloor
                /\ row.Annual_Revenue >= data[i].Annual_Revenue
                /\ row.Annual_Revenue \in {data[i].Annual_Revenue, AnnualRevenueFloor}
                /\ 0 <= d /\ d <= k
                /\ -50 <= err /\ err <= 50

\* the CLTV cell has run: customer 149, drawn at 2761.98, is valued from 20000
\* (20000 * 0.71 * 1 = 14200.00), and customer 4, whose product 64939.66 * 0.75 * 5
\* ends in half a cent, is valued at 243523.72
C4_Witness ==
    /\ Defined(profit_df)
    /\ HasCLTV(profit_df)
    /\ data[149].Annual_Revenue = 276198
    /\ profit_df[149].Annual_Revenue = 2000000
    /\ profit_df[149].CLTV = 1420000
    /\ profit_df[4].CLTV = 24352372

\* C5: Run All on a fresh kernel never stops at a cell that raises, in any notebook.
C5_RunAllNeverRaises == \A nb \in Notebooks : halted[nb] = ""

\* C6 as written: no cell ever creates a file.
C6_NothingWritten == files = {}

\* C6, amended: the only file any cell writes is the figure of the product-tiering
\* plot cell, written when that cell runs (its table defined, its directory there);
\* every other step leaves the file system as it was.
C6_OnlyTieringPlotWrites ==
    [][files' # files =>
          /\ Defined(tier_df)
          /\ dir_exists
          /\ files' = files \cup {TieringFigure}]_vars

\* the product-tiering plot cell has written its figure
C6_Witness == files = {TieringFigure} /\ Defined(tier_df)

\* C7: after the first cell of the Anthropic unit-economics notebook, 3M tokens at
\* 2:1 earn $120, cost $30 and leave a gross margin of about 75 percent.
C7_InterpretationFigures ==
    Defined(prices) =>
        /\ prices[1].input_tokens = 2000000 /\ prices[1].output_tokens = 1000000
        /\ prices[1].revenue = RInt(120)
        /\ prices[1].cost = RInt(30)
        /\ RLe(RInt(74), prices[1].gross_margin) /\ RLe(prices[1].gross_margin, RInt(76))

\* C8: revenue is $30 per million input tokens plus $60 per million output tokens,
\* cost $6 and $12 per million (each within a millionth of that amount), gross
\* margin the float (revenue - cost) / revenue * 100, which is 80.0 to one decimal
\* whenever there is revenue; 2,000,000 input and 1,000,000 output tokens give 120,
\* 24 and 80 and print 120.00, 24.00 and 80.0.
C8_TokenEconomics ==
    AppliedTokenEconomics =>
        /\ Near(res[1].revenue,
                R(30 * arg.input_tokens + 60 * arg.output_tokens, 1000000))
        /\ Near(res[1].cost, R(6 * arg.input_tokens + 12 * arg.output_tokens, 1000000))
        /\ res[1].revenue # RInt(0) =>
              /\ IsNum(res[1].gross_margin)
              /\ Near(RMul(res[1].gross_margin, res[1].revenue),
                      RMul(RSub(res[1].revenue, res[1].cost), RInt(100)))
              /\ Format1f(res[1].gross_margin) = 800
        /\ (arg.input_tokens = input_tokens /\ arg.output_tokens = output_tokens) =>
              /\ res[1].revenue = RInt(120)
              /\ res[1].cost = RInt(24)
              /\ res[1].gross_margin = RInt(80)
              /\ TokenEconomicsStdout(res[1]) = <<12000, 2400, 800>>

\* the formulas have been applied to the notebook's 2M input and 1M output tokens
C8_Witness ==
    /\ AppliedTokenEconomics
    /\ arg.input_tokens = 2000000 /\ arg.output_tokens = 1000000
    /\ res[1].revenue = RInt(120) /\ res[1].cost = RInt(24)
    /\ res[1].gross_margin = RInt(80)

\* C9: the annual revenue of 1,000 customers is exactly $48,000,000, a monthly
\* revenue of 4000 a customer times 12 times 1000, and prints as 48.0M.
C9_AnnualRevenue ==
    Defined(annual_revenue) =>
        /\ MonthlyRevenuePerCustomer = RInt(4000)
        /\ annual_revenue[1] = RInt(48000000)
        /\ AnnualRevenueStdout(annual_revenue[1]) = 480

\* the annual revenue cell has run
C9_Witness ==
    /\ Defined(prices)
    /\ Defined(annual_revenue)
    /\ annual_revenue[1] = RInt(4000 * 12 * 1000)

TierAnnual(tier) ==
    CASE tier = "Starter" -> 600000 [] tier = "Growth" -> 3600000
      [] tier = "Pro" -> 2880000 [] tier = "Enterprise" -> 3000000

\* C10: every tier row has Monthly_Revenue = Num_Customers * Price and
\* Annual_Revenue = 12 * Monthly_Revenue, and the four tiers come in the order
\* Starter, Growth, Pro, Enterprise with annual revenue 600000, 3600000, 2880000
\* and 3000000.
C10_TierRevenue ==
    Defined(tier_df) =>
        /\ Len(tier_df) = 4
        /\ [i \in DOMAIN tier_df |-> tier_df[i].Tier] = Tiers
        /\ \A i \in DOMAIN tier_df :
              /\ tier_df[i].Monthly_Revenue = tier_df[i].Num_Customers * tier_df[i].Price
              /\ tier_df[i].Annual_Revenue = 12 * tier_df[i].Monthly_Revenue
              /\ tier_df[i].Annual_Revenue = TierAnnual(tier_df[i].Tier)

\* the revenue simulation cell has run: Growth has 1200 customers at 250
C10_Witness ==
    /\ Defined(tier_df)
    /\ tier_df[2].Tier = "Growth"
    /\ tier_df[2].Num_Customers = 1200
    /\ tier_df[2].Price = 250
    /\ tier_df[2].Annual_Revenue = 3600000

AppliedEstimate == arg.fn = "estimate_claude_cost" /\ Defined(res)

\* C11: for all non-negative millions of tokens estimate_claude_cost returns the
\* float input_tokens_m * 30 + output_tokens_m * 60 (30 * i + 60 * o exactly for
\* whole millions i and o), what it returns is the input cost plus the output cost
\* whose lines it prints, each printed line is its amount to the cent, and
\* estimate_claude_cost(5, 2) prints 150.00, 120.00, 270.00 and returns 270.
C11_EstimateClaudeCost ==
    AppliedEstimate =>
        LET i == arg.input_tokens_m
            o == arg.output_tokens_m
        IN  /\ res[1].returns = RAdd(RMul(i, RInt(30)), RMul(o, RInt(60)))
            /\ \A a, b \in 0..MaxTokensM :
                  (i = RInt(a) /\ o = RInt(b)) => res[1].returns = RInt(30 * a + 60 * b)
            /\ res[1].returns = RAdd(res[1].input_cost, res[1].output_cost)
            /\ RLe(RInt(0), res[1].returns)
            /\ res[1].stdout[1] = Format2f(res[1].input_cost)
            /\ res[1].stdout[2] = Format2f(res[1].output_cost)
            /\ res[1].stdout[3] = Format2f(res[1].returns)
            /\ (i = RInt(5) /\ o = RInt(2)) =>
                  /\ res[1].stdout = <<15000, 12000, 27000>>
                  /\ res[1].returns = RInt(270)

\* the notebook's example has been evaluated: 5M input and 2M output tokens
C11_Witness ==
    /\ AppliedEstimate
    /\ arg.input_tokens_m = RInt(5) /\ arg.output_tokens_m = RInt(2)
    /\ res[1].input_cost = RInt(150) /\ res[1].output_cost = RInt(120)
    /\ res[1].returns = RInt(270)

\* the names of the other notebooks' kernels are left as they were by a step of nb
OthersUntouched(nb) ==
    /\ nb # UE => UNCHANGED <<imported, assumptions, cohorts, breakeven>>
    /\ nb # AUE => UNCHANGED <<prices, annual_revenue>>
    /\ nb # TIER => UNCHANGED tier_df
    /\ nb # PROF => UNCHANGED <<data, profit_df, rng>>

\* the customer table the data-setup cell builds, and that table with the CLTV and
\* the CLTV_CAC_Ratio columns
SeededTable == DataSetup(Draws(Seed42State))

SeededTableWithCLTV == WithCLTV(SeededTable)

SeededTableWithRatio == WithRatio(SeededTableWithCLTV)

\* every name holds what its own notebook's cells compute from that notebook's
\* literals and draws alone
OwnValuesOnly ==
    /\ assumptions \in {Undefined, <<Assumptions>>}
    /\ cohorts \in {Undefined, Cohorts, JoinUnitEconomics(Assumptions, Cohorts)}
    /\ breakeven
          \in {Undefined, <<BreakEven(Assumptions, JoinUnitEconomics(Assumptions, Cohorts))>>}
    /\ prices \in {Undefined, <<TokenEconomics(input_tokens, output_tokens)>>}
    /\ annual_revenue \in {Undefined, <<AnnualRevenue1000>>}
    /\ tier_df \in {Undefined, TierTable}
    /\ data \in {Undefined, Draws(Seed42State)}
    /\ profit_df \in {Undefined, SeededTable, SeededTableWithCLTV, SeededTableWithRatio}

\* C12: the notebooks are independent: every step (a cell run or a kernel restart)
\* changes the names of one notebook at most and leaves every other notebook's
\* names as they were, and whatever the other notebooks have executed, in whatever
\* order, each name holds one of the values its own notebook computes on its own.
C12_NotebooksIndependent ==
    /\ []OwnValuesOnly
    /\ [][\E nb \in Notebooks : OthersUntouched(nb)]_vars

\* four notebooks have run in one session and each holds its own results
C12_Witness ==
    /\ Defined(cohorts) /\ IsJoined(cohorts) /\ Defined(breakeven)
    /\ annual_revenue = <<AnnualRevenue1000>>
    /\ tier_df = TierTable /\ files = {TieringFigure}
    /\ Defined(profit_df) /\ HasRatio(profit_df)

\* C13: the break-even figure is customer_acquisition_cost / mean(margin) with the
\* mean taken over the three cohort rows unweighted (Indie with its payment of 0
\* included, count ignored): the mean is (-200.5 + 1215 + 23950) / 3 = 8321.5, the
\* figure is 400 / 8321.5, lies strictly between 0 and 1, and prints as 0.0.
C13_BreakEven ==
    Defined(breakeven) =>
        LET avg == breakeven[1].avg_monthly_margin
            b   == breakeven[1].breakeven_customers
        IN  /\ avg = RDiv(RAdd(RAdd(R(-2005, 10), RInt(1215)), RInt(23950)), RInt(3))
            /\ avg = R(83215, 10)
            /\ IsNum(b)
            /\ b = RDiv(RInt(400), avg)
            /\ Near(RMul(b, avg), RInt(400))
            /\ RLt(RInt(0), b) /\ RLt(b, RInt(1))
            /\ breakeven[1].stdout = 0

\* the break-even cell has run on the joined table: a mean margin of 8321.5
C13_Witness ==
    /\ Defined(breakeven)
    /\ Defined(cohorts) /\ IsJoined(cohorts)
    /\ breakeven[1].avg_monthly_margin = R(83215, 10)
    /\ breakeven[1].breakeven_customers = R(800, 16643)

CohortRow(name) == CHOOSE row \in {cohorts[i] : i \in DOMAIN cohorts} : row.name = name

\* C14: in the computed cohorts table the Indie cohort has a strictly negative
\* margin, the SMB cohort a strictly positive one, and the Enterprise cohort has
\* both the largest margin and the largest gross_margin_pct of the three.
C14_StrategicTakeaways ==
    (Defined(cohorts) /\ IsJoined(cohorts)) =>
        /\ {cohorts[i].name : i \in DOMAIN cohorts} = {"Indie", "SMB", "Enterprise"}
        /\ RLt(CohortRow("Indie").margin, RInt(0))
        /\ RLt(RInt(0), CohortRow("SMB").margin)
        /\ \A i \in DOMAIN cohorts :
              cohorts[i].name # "Enterprise" =>
                  /\ RLt(cohorts[i].margin, CohortRow("Enterprise").margin)
                  /\ RLt(cohorts[i].gross_margin_pct,
                         CohortRow("Enterprise").gross_margin_pct)

\* the unit-economics cell has filled the table: Indie loses 200.5 a month, SMB
\* keeps 81 percent, Enterprise 95.8 percent
C14_Witness ==
    /\ Defined(cohorts) /\ IsJoined(cohorts)
    /\ CohortRow("Indie").margin = R(-2005, 10)
    /\ CohortRow("SMB").gross_margin_pct = RInt(81)
    /\ CohortRow("Enterprise").gross_margin_pct = R(958, 10)

AppliedDataSetup == arg.fn = "DataSetup" /\ Defined(res)

\* C15: once the data frame has been set up, every customer row has Annual_Revenue
\* >= 20000 and CAC >= 5000 whatever was drawn: a draw at or above its floor is
\* kept, a draw below it (negative or tiny) is replaced by the floor.
C15_ClipFloors ==
    AppliedDataSetup =>
        /\ DOMAIN res[1] = DOMAIN arg.data
        /\ \A i \in DOMAIN res[1] :
              /\ res[1][i].Annual_Revenue >= AnnualRevenueFloor
              /\ res[1][i].CAC >= CACFloor
              /\ res[1][i].Annual_Revenue =
                    IF arg.data[i].Annual_Revenue >= AnnualRevenueFloor
                    THEN arg.data[i].Annual_Revenue ELSE AnnualRevenueFloor
              /\ res[1][i].CAC =
                    IF arg.data[i].CAC >= CACFloor THEN arg.data[i].CAC ELSE CACFloor

\* the data frame has been set up from a negative revenue draw with a CAC draw one
\* cent under its floor, and from the seeded table's customer 149, whose revenue
\* draw of 2761.98 is raised to 20000 and whose CAC of 21298.61 is kept
C15_Witness ==
    /\ AppliedDataSetup
    /\ \E i \in DOMAIN res[1] :
          /\ arg.data[i].Annual_Revenue = -1234567 /\ res[1][i].Annual_Revenue = 2000000
          /\ arg.data[i].CAC = 499999 /\ res[1][i].CAC = 500000
    /\ \E i \in DOMAIN res[1] :
          /\ arg.data[i].Annual_Revenue = 276198 /\ res[1][i].Annual_Revenue = 2000000
          /\ res[1][i].CAC = 2129861

\* C16: once the ratio cell has run, every customer's CLTV_CAC_Ratio is CLTV / CAC
\* rounded to two decimals (a whole number of hundredths within half a hundredth
\* of the quotient), the divisor is never 0 (CAC >= 5000) and the ratio is strictly
\* positive (CLTV > 0, from Annual_Revenue >= 20000, Gross_Margin >= 0.6 and
\* Retention_Years >= 1).  CLTV is q * CAC + r, so the quotient is 100 * q +
\* 100 * r / CAC hundredths, and the ratio lies d = 0..100 hundredths above 100 * q.
C16_RatioDefinedAndPositive ==
    (Defined(profit_df) /\ HasRatio(profit_df)) =>
        \A i \in DOMAIN profit_df :
            LET row == profit_df[i]
                q   == row.CLTV \div row.CAC
                r   == row.CLTV % row.CAC
                d   == row.CLTV_CAC_Ratio - 100 * q
                err == d * row.CAC - 100 * r
            IN  /\ row.CAC >= CACFloor /\ row.CAC > 0
                /\ row.Annual_Revenue >= AnnualRevenueFloor
                /\ row.Gross_Margin >= 60
                /\ row.Retention_Years >= 1
                /\ row.CLTV > 0
                /\ 0 <= d /\ d <= 100
                /\ -row.CAC <= 2 * err /\ 2 * err <= row.CAC
                /\ row.CLTV_CAC_Ratio > 0

\* the ratio cell has run after the data and CLTV cells: customer 149, with a CLTV
\* of 14200.00 on a CAC of 21298.61, has a ratio of 0.67, and customer 1, with a
\* CLTV of 301533.34 on a CAC of 15801.39, a ratio of 19.08
C16_Witness ==
    /\ Defined(profit_df)
    /\ HasRatio(profit_df)
    /\ profit_df[149].CLTV = 1420000
    /\ profit_df[149].CAC = 2129861
    /\ profit_df[149].CLTV_CAC_Ratio = 67
    /\ profit_df[1].CLTV = 30153334
    /\ profit_df[1].CLTV_CAC_Ratio = 1908

\* C17: the simulated dataset is reproducible: whatever state the generator was in
\* when the data-setup cell ran (a fresh kernel, a re-run in the same kernel, a
\* restarted kernel), df holds the one table of n_customers rows that the draws
\* from the state of np.random.seed(42) give, clipped.
C17_SeededDataReproducible ==
    Defined(profit_df) =>
        /\ data = Draws(Seed42State)
        /\ DOMAIN profit_df = 1..n_customers
        /\ \A i \in DOMAIN profit_df :
              LET row    == profit_df[i]
                  seeded == SeededTable[i]
              IN  /\ row.Customer_ID = seeded.Customer_ID
                  /\ row.Segment = seeded.Segment
                  /\ row.Annual_Revenue = seeded.Annual_Revenue
                  /\ row.Gross_Margin = seeded.Gross_Margin
                  /\ row.CAC = seeded.CAC
                  /\ row.Retention_Years = seeded.Retention_Years

\* the data-setup cell has run and left the generator one batch of draws past the
\* seed's state, a state from which the draws give another table
C17_Witness ==
    /\ Defined(profit_df)
    /\ profit_df = SeededTable
    /\ profit_df[1].Annual_Revenue = 9422917
    /\ rng = AfterDraws(Seed42State)
    /\ Draws(rng) # data

====
